---- MODULE Spec2Model ----
(***************************************************************************)
(* Model of the request pipeline of main.py: startup, the verify_token    *)
(* dependency (Auth Gate) and the four route handlers root, create_todo,  *)
(* list_todos and get_todo over the Todo table.                           *)
(*                                                                         *)
(* One uvicorn process with one event loop.  verify_token and the         *)
(* handlers are `async def` bodies without an await, so each is one       *)
(* atomic step; the synchronous requests.post inside verify_token holds   *)
(* the event loop from the call until the oracle's reply.                 *)
(***************************************************************************)
EXTENDS Integers, Sequences, FiniteSets, TLC

\* ---------------------------------------------------------------- bounds
MaxRequests == 3        \* requests received over the run
MaxTodos == 2           \* rows the Todo table may hold

\* ---------------------------------------------------------------- inputs
\* Optional[str] header value: <<>> is None (header absent), <<s>> is s.
None == <<>>
AuthHeaders == {None, <<"">>, <<"Bearer t1">>}

\* request bodies of POST /todos/ that validate as TodoCreate
Payloads == {"buy milk"}

\* path parameter of GET /todos/{todo_id}
TodoIds == {-1} \cup (1..MaxTodos)

Endpoints == {"root", "create_todo", "list_todos", "get_todo"}

\* what requests.post can produce: a response with a status code, or a
\* requests.RequestException (connection error, timeout), written -1
RequestException == -1
OracleOutcomes == {200, 201, 401, RequestException}

VARIABLES
    phase,      \* "starting", "serving" or "aborted"
    inits,      \* how often each startup step has completed
    reqs,       \* the requests received so far, in order of arrival
    loop,       \* 0, or the request whose requests.post holds the event loop
    store,      \* rows of the Todo table, in insertion order
    nextId,     \* the table's next primary key
    oracleLog,  \* calls received by the verification oracle
    cache,      \* entries under the "fastapi-cache" prefix in redis
    usage       \* rate-limit counter kept by FastAPILimiter in redis

vars == <<phase, inits, reqs, loop, store, nextId, oracleLog, cache, usage>>

\* ------------------------------------------------------------ the store
\* Todo.from_orm(todo): a Todo row built from the payload, id not yet set
from_orm(todo) == [id |-> 0, title |-> todo]

\* db.add + db.commit: the table assigns the primary key and keeps the row
StoreAssignIdFixed(n) == 1

StoreAssignId(n) == n

\* the new row written over the table's last row instead of after it
StoreCommitOverwrite(rows, row, n) ==
    IF rows = <<>> THEN <<[row EXCEPT !.id = StoreAssignId(n)]>>
    ELSE [rows EXCEPT ![Len(rows)] = [row EXCEPT !.id = StoreAssignId(n)]]

StoreCommit(rows, row, n) ==
    Append(rows, [row EXCEPT !.id = StoreAssignId(n)])

\* db.refresh(db_todo): the attributes of the committed row, re-read from
\* the table
StoreRefresh(rows, id) ==
    SelectSeq(rows, LAMBDA row : row.id = id)

\* .first() in place of .all()
StoreListFirst(rows) == IF rows = <<>> THEN <<>> ELSE <<rows[1]>>

\* db.exec(select(Todo)).all()
StoreList(rows) == rows

StoreGetFirst(rows, todo_id) ==
    IF rows = <<>> THEN <<>> ELSE <<rows[1]>>

\* db.get(Todo, todo_id): the row with that primary key, or none
StoreGet(rows, todo_id) ==
    SelectSeq(rows, LAMBDA row : row.id = todo_id)

\* response_model=TodoRead: the fields of the row that the response carries
TodoRead(row) == [id |-> row.id, title |-> row.title]

RECURSIVE TodoReadList(_)
TodoReadList(rows) ==
    IF rows = <<>> THEN <<>>
    ELSE <<TodoRead(Head(rows))>> \o TodoReadList(Tail(rows))

\* ------------------------------------------------------------ auth gate
NoTokenEmptyOnly(authorization) ==
    IF authorization = None THEN FALSE ELSE authorization[1] = ""

\* `if authorization is None` in place of `if not authorization`
NoTokenNoneOnly(authorization) == authorization = None

\* `if not authorization`: None and the empty string are both falsy
NoToken(authorization) ==
    IF authorization = None THEN TRUE ELSE authorization[1] = ""

\* `except Exception` in place of `except requests.RequestException`: the
\* HTTPException raised for a non-200 answer is caught as well
VerifyOutcomeCatchAll(outcome) ==
    IF outcome # 200 THEN 503 ELSE 0

\* the status check left out
VerifyOutcomeNoStatusCheck(outcome) ==
    IF outcome = RequestException THEN 503 ELSE 0

\* outcome of the try block around requests.post: 0 lets the request
\* through, otherwise the status of the HTTPException raised
VerifyOutcome(outcome) ==
    IF outcome = RequestException THEN 503
    ELSE IF outcome # 200 THEN 401
    ELSE 0

VerifyDetail(outcome) ==
    IF outcome = RequestException THEN "Authentication service unavailable"
    ELSE "Invalid token"

IsNoneNever(todo) == FALSE

\* `if todo is None` in get_todo
IsNone(todo) == todo = <<>>

\* ------------------------------------------------------------- requests
\* storeOps, cacheOps and limiterOps count the request's operations on the
\* Todo table, on the response cache and on the rate limiter; handler tells
\* whether the route function has run
NewRequest(ep, auth, arg) ==
    [ep |-> ep, auth |-> auth, arg |-> arg, pc |-> "auth", oracle |-> 0,
     status |-> 0, detail |-> "", body |-> <<>>,
     handler |-> FALSE, storeOps |-> 0, cacheOps |-> 0, limiterOps |-> 0]

Respond(r, status, detail, body) ==
    [reqs EXCEPT ![r].pc = "done", ![r].status = status,
                 ![r].detail = detail, ![r].body = body]

Args(ep) ==
    CASE ep = "create_todo" -> Payloads
      [] ep = "get_todo" -> TodoIds
      [] OTHER -> {0}

Init ==
    /\ phase = "starting"
    /\ inits = [schema |-> 0, limiter |-> 0, cache |-> 0]
    /\ reqs = <<>>
    /\ loop = 0
    /\ store = <<>>
    /\ nextId = 1
    /\ oracleLog = <<>>
    /\ cache = {}
    /\ usage = 0

\* --------------------------------------------------------------- startup
StartupSteps == <<"schema", "limiter", "cache">>

\* the exception printed and swallowed: `raise` left out of the handler
StartupPhaseSwallowed(failAt) == "serving"

\* lines 34-36: an exception of a startup step is re-raised, which makes the
\* server give up instead of serving
StartupPhase(failAt) == IF failAt = 0 THEN "serving" ELSE "aborted"

\* startup(): create_all, FastAPILimiter.init, FastAPICache.init in this
\* order; an exception in step `failAt` is printed and re-raised, which
\* aborts the application's startup (failAt = 0: none fails)
startup(failAt) ==
    /\ phase = "starting"
    /\ inits' = [s \in DOMAIN inits |->
                   IF failAt = 0 \/ (\E i \in 1..(failAt - 1) : StartupSteps[i] = s)
                   THEN inits[s] + 1 ELSE inits[s]]
    /\ phase' = StartupPhase(failAt)
    /\ UNCHANGED <<reqs, loop, store, nextId, oracleLog, cache, usage>>

\* ----------------------------------------------------------- the router
\* A request is received and its dependencies are solved: verify_token
\* runs first, without a suspension point before its first statement.

\* verify_token, lines 39-40
verify_token_absent(ep, auth, arg) ==
    /\ phase = "serving"
    /\ loop = 0
    /\ Len(reqs) < MaxRequests
    /\ NoToken(auth)
    /\ reqs' = Append(reqs, [NewRequest(ep, auth, arg) EXCEPT
                               !.pc = "done", !.status = 401,
                               !.detail = "No token provided"])
    /\ UNCHANGED <<phase, inits, loop, store, nextId, oracleLog, cache, usage>>

\* requests.get in place of requests.post
OracleRequestGet(r, authorization) ==
    [req |-> r, method |-> "GET", authorization |-> authorization]

\* lines 43-46: the call sent to the oracle for request r, a POST whose
\* Authorization header is the value received
OracleRequest(r, authorization) ==
    [req |-> r, method |-> "POST", authorization |-> authorization]

\* verify_token, lines 42-46: requests.post is issued; the call is
\* synchronous, so the event loop is held until it returns
verify_token_post(ep, auth, arg) ==
    /\ phase = "serving"
    /\ loop = 0
    /\ Len(reqs) < MaxRequests
    /\ ~NoToken(auth)
    /\ reqs' = Append(reqs, [NewRequest(ep, auth, arg) EXCEPT !.pc = "waiting"])
    /\ oracleLog' = Append(oracleLog, OracleRequest(Len(reqs) + 1, auth))
    /\ loop' = Len(reqs) + 1
    /\ UNCHANGED <<phase, inits, store, nextId, cache, usage>>

\* verify_token, lines 47-50: requests.post returns or raises
verify_token_result(r, outcome) ==
    /\ loop = r
    /\ reqs[r].pc = "waiting"
    /\ loop' = 0
    /\ LET answered == [reqs EXCEPT ![r].oracle = outcome]
       IN  reqs' = IF VerifyOutcome(outcome) = 0
                   THEN [answered EXCEPT ![r].pc = "handler"]
                   ELSE [answered EXCEPT ![r].pc = "done",
                                         ![r].status = VerifyOutcome(outcome),
                                         ![r].detail = VerifyDetail(outcome)]
    /\ UNCHANGED <<phase, inits, store, nextId, oracleLog, cache, usage>>

\* GET /
root(r) ==
    /\ loop = 0
    /\ reqs[r].pc = "handler"
    /\ reqs[r].ep = "root"
    /\ reqs' = [Respond(r, 200, "", <<[message |-> "Hello World"]>>)
                  EXCEPT ![r].handler = TRUE]
    /\ UNCHANGED <<phase, inits, loop, store, nextId, oracleLog, cache, usage>>

\* POST /todos/
create_todo(r) ==
    /\ loop = 0
    /\ reqs[r].pc = "handler"
    /\ reqs[r].ep = "create_todo"
    /\ Len(store) < MaxTodos
    /\ LET db_todo == from_orm(reqs[r].arg)
           rows == StoreCommit(store, db_todo, nextId)
           refreshed == StoreRefresh(rows, StoreAssignId(nextId))
       IN  /\ store' = rows
           /\ nextId' = nextId + 1
           /\ reqs' = [Respond(r, 200, "", TodoReadList(refreshed))
                         EXCEPT ![r].handler = TRUE, ![r].storeOps = 2]
    /\ UNCHANGED <<phase, inits, loop, oracleLog, cache, usage>>

\* GET /todos/
list_todos(r) ==
    /\ loop = 0
    /\ reqs[r].pc = "handler"
    /\ reqs[r].ep = "list_todos"
    /\ LET todos == StoreList(store)
       IN  reqs' = [Respond(r, 200, "", TodoReadList(todos))
                      EXCEPT ![r].handler = TRUE, ![r].storeOps = 1]
    /\ UNCHANGED <<phase, inits, loop, store, nextId, oracleLog, cache, usage>>

\* GET /todos/{todo_id}
get_todo(r) ==
    /\ loop = 0
    /\ reqs[r].pc = "handler"
    /\ reqs[r].ep = "get_todo"
    /\ LET todo == StoreGet(store, reqs[r].arg)
       IN  reqs' = IF IsNone(todo)
                   THEN [Respond(r, 404, "Todo not found", <<>>)
                           EXCEPT ![r].handler = TRUE, ![r].storeOps = 1]
                   ELSE [Respond(r, 200, "", TodoReadList(todo))
                           EXCEPT ![r].handler = TRUE, ![r].storeOps = 1]
    /\ UNCHANGED <<phase, inits, loop, store, nextId, oracleLog, cache, usage>>

Next ==
    \/ \E failAt \in 0..3 : startup(failAt)
    \/ \E ep \in Endpoints, auth \in AuthHeaders :
         \E arg \in Args(ep) : verify_token_absent(ep, auth, arg)
    \/ \E ep \in Endpoints, auth \in AuthHeaders :
         \E arg \in Args(ep) : verify_token_post(ep, auth, arg)
    \/ \E r \in DOMAIN reqs, outcome \in OracleOutcomes :
         verify_token_result(r, outcome)
    \/ \E r \in DOMAIN reqs : root(r)
    \/ \E r \in DOMAIN reqs : create_todo(r)
    \/ \E r \in DOMAIN reqs : list_todos(r)
    \/ \E r \in DOMAIN reqs : get_todo(r)

Spec == Init /\ [][Next]_vars

\* ------------------------------------------------------------ properties
Done(r) == reqs[r].pc = "done"

\* number of calls the verification oracle received for request r
OracleCalls(r) ==
    Cardinality({i \in DOMAIN oracleLog : oracleLog[i].req = r})

\* C1: a request to any of the four endpoints that carries no Authorization
\* header is answered 401, and the oracle receives no call for it.
C1_NoHeaderRejectedBeforeOracle ==
    \A r \in DOMAIN reqs :
        reqs[r].auth = None =>
            /\ Done(r)
            /\ reqs[r].status = 401
            /\ OracleCalls(r) = 0
            /\ reqs[r].oracle = 0

\* a header-less POST /todos/ has been rejected while the oracle was called
\* for another request
C1_Witness ==
    \E r, q \in DOMAIN reqs :
        /\ reqs[r].auth = None
        /\ reqs[r].ep = "create_todo"
        /\ reqs[r].status = 401
        /\ OracleCalls(q) = 1

\* C2: with an Authorization header, an oracle answer other than 200 gives
\* 401 and a network error or timeout of the oracle call gives 503; neither
\* outcome ever produces the other status.
C2_RejectedVersusUnavailable ==
    \A r \in DOMAIN reqs :
        (reqs[r].auth # None /\ reqs[r].oracle # 0) =>
            /\ (reqs[r].oracle \notin {200, RequestException}) =>
                   (Done(r) /\ reqs[r].status = 401)
            /\ (reqs[r].oracle = RequestException) =>
                   (Done(r) /\ reqs[r].status = 503)
            /\ (reqs[r].status = 503) => (reqs[r].oracle = RequestException)

\* one request was answered 401 after the oracle said 201, another 503 after
\* the oracle call raised
C2_Witness ==
    \E r, q \in DOMAIN reqs :
        /\ reqs[r].oracle = 201 /\ reqs[r].status = 401
        /\ reqs[q].oracle = RequestException /\ reqs[q].status = 503

\* C3: a route function runs, and the Todo table is read or written, for a
\* request only if the oracle answered 200 for that very request; a request
\* answered 401 or 503 has not touched the table; the table changes only in
\* the step of a request the oracle accepted.
C3_StateGate ==
    \A r \in DOMAIN reqs :
        /\ (reqs[r].handler \/ reqs[r].storeOps > 0 \/ reqs[r].pc = "handler")
               => (reqs[r].oracle = 200 /\ OracleCalls(r) = 1)
        /\ (reqs[r].status \in {401, 503})
               => (~reqs[r].handler /\ reqs[r].storeOps = 0)

C3_StoreGate ==
    store' # store =>
        \E r \in DOMAIN reqs :
            /\ reqs[r].oracle = 200
            /\ reqs[r].pc = "handler"
            /\ reqs'[r].pc = "done"

\* C3: the gate holds in every state and at every change of the table.
C3_EveryHandlerGated == []C3_StateGate /\ [][C3_StoreGate]_vars

\* a request was let through and wrote a row; a later request with the same
\* header value was refused by the oracle and got 401 without touching the
\* table
C3_Witness ==
    \E r, q \in DOMAIN reqs :
        /\ r < q
        /\ reqs[r].auth = reqs[q].auth
        /\ reqs[r].ep = "create_todo" /\ reqs[r].status = 200
        /\ reqs[q].ep = "list_todos" /\ reqs[q].oracle = 401
        /\ reqs[q].status = 401
        /\ store # <<>>

\* a step in which the route function of request r runs and answers
HandlerStep(r, ep) ==
    /\ reqs[r].pc = "handler"
    /\ reqs[r].ep = ep
    /\ reqs'[r].pc = "done"

HasRow(rows, id) == \E i \in DOMAIN rows : rows[i].id = id

\* C4: for the configured limit N, every request after the N-th of the
\* client's window is answered 429 (stated for every limit N the run can
\* exceed: one of them must fit the answers given).
C4_RateLimited ==
    \E N \in 1..(MaxRequests - 1) :
        \A r \in DOMAIN reqs :
            (r > N /\ Done(r)) => reqs[r].status = 429

\* C5: once GET /todos/ has been answered and so cached, a create_todo
\* leaves that entry alone and the next GET /todos/ is still answered with
\* the cached, pre-creation list.
C5_StaleStep ==
    \A r, q \in DOMAIN reqs :
        (/\ HandlerStep(r, "list_todos")
         /\ Done(q) /\ reqs[q].ep = "list_todos" /\ reqs[q].status = 200)
            => reqs'[r].body = reqs[q].body

\* C5: every GET /todos/ step after an answered GET /todos/ repeats its list.
C5_StaleListAfterCreate == [][C5_StaleStep]_vars

\* C6: a GET /todos/ or GET /todos/{id} whose route function ran (a miss)
\* has its response stored in the cache under the request's key; a request
\* that found its key in the cache did not run the route function or touch
\* the table; POST /todos/ and GET / leave the cache alone.
C6_CachedReads ==
    \A r \in DOMAIN reqs :
        /\ (/\ Done(r) /\ reqs[r].status = 200 /\ reqs[r].handler
            /\ reqs[r].ep \in {"list_todos", "get_todo"})
               => \E e \in cache :
                      /\ e.ep = reqs[r].ep /\ e.arg = reqs[r].arg
                      /\ e.body = reqs[r].body
        /\ reqs[r].ep \in {"root", "create_todo"} => reqs[r].cacheOps = 0

\* C7: the ids returned by successful create_todo requests are pairwise
\* distinct, whatever the order in which concurrent requests commit, and the
\* table holds no id twice.
C7_DistinctIds ==
    /\ \A r, q \in DOMAIN reqs :
           (/\ r # q
            /\ reqs[r].ep = "create_todo" /\ reqs[r].status = 200
            /\ reqs[q].ep = "create_todo" /\ reqs[q].status = 200)
               => /\ Len(reqs[r].body) = 1 /\ Len(reqs[q].body) = 1
                  /\ reqs[r].body[1].id # reqs[q].body[1].id
    /\ \A i, j \in DOMAIN store : i # j => store[i].id # store[j].id

\* two create_todo requests were in flight together and the one received
\* later committed first
C7_Witness ==
    \E r, q \in DOMAIN reqs :
        /\ r < q
        /\ reqs[r].ep = "create_todo" /\ reqs[r].status = 200
        /\ reqs[q].ep = "create_todo" /\ reqs[q].status = 200
        /\ reqs[q].body[1].id < reqs[r].body[1].id

\* C8: a get_todo that runs after create_todo returned record rec, asked for
\* rec.id, answers 200 with a record equal to rec in all fields.
C8_RoundTripStep ==
    \A g, c \in DOMAIN reqs :
        (/\ HandlerStep(g, "get_todo")
         /\ Done(c) /\ reqs[c].ep = "create_todo" /\ reqs[c].status = 200
         /\ Len(reqs[c].body) = 1
         /\ reqs[c].body[1].id = reqs[g].arg)
            => /\ reqs'[g].status = 200
               /\ reqs'[g].body = reqs[c].body

\* C8: every get_todo step returns the record create_todo returned for that id.
C8_RoundTrip == [][C8_RoundTripStep]_vars

\* the second record created has been fetched by its id
C8_Witness ==
    \E g, c \in DOMAIN reqs :
        /\ reqs[c].ep = "create_todo" /\ reqs[c].status = 200
        /\ reqs[c].body[1].id = 2
        /\ reqs[g].ep = "get_todo" /\ reqs[g].arg = 2
        /\ reqs[g].status = 200
        /\ reqs[g].body = reqs[c].body

\* C9 as amended: get_todo for an id the table does not hold answers 404
\* with detail "Todo not found" and no record, and leaves the table as it was.
C9_NotFoundStep ==
    \A g \in DOMAIN reqs :
        (HandlerStep(g, "get_todo") /\ ~HasRow(store, reqs[g].arg))
            => /\ reqs'[g].status = 404
               /\ reqs'[g].detail = "Todo not found"
               /\ reqs'[g].body = <<>>
               /\ store' = store
               /\ nextId' = nextId

\* C9 as amended: every get_todo step for an absent id answers 404 "Todo not found".
C9_NotFound == [][C9_NotFoundStep]_vars

\* id -1 and the never-issued id 2 were both asked for and answered 404
\* while the table held a row
C9_Witness ==
    \E g, h \in DOMAIN reqs :
        /\ reqs[g].ep = "get_todo" /\ reqs[g].arg = -1 /\ reqs[g].status = 404
        /\ reqs[h].ep = "get_todo" /\ reqs[h].arg = 2 /\ reqs[h].status = 404
        /\ Len(store) = 1

\* C9 as stated: the 404 carries the detail "todo not found".
C9_OrigStep ==
    \A g \in DOMAIN reqs :
        (HandlerStep(g, "get_todo") /\ ~HasRow(store, reqs[g].arg))
            => /\ reqs'[g].status = 404
               /\ reqs'[g].detail = "todo not found"
               /\ reqs'[g].body = <<>>
               /\ store' = store
               /\ nextId' = nextId

\* C9 as stated: every get_todo step for an absent id answers 404 "todo not found".
C9_NotFoundLowerCase == [][C9_OrigStep]_vars

\* C10: every request consults the rate limiter before the oracle is called
\* for it, every read request looks in the cache before its route function
\* touches the table, and a request answered 429 caused no oracle call and
\* no table access.
C10_CompositionOrder ==
    \A r \in DOMAIN reqs :
        /\ OracleCalls(r) > 0 => reqs[r].limiterOps > 0
        /\ (reqs[r].storeOps > 0 /\ reqs[r].ep \in {"list_todos", "get_todo"})
               => reqs[r].cacheOps > 0
        /\ reqs[r].status = 429 => (OracleCalls(r) = 0 /\ reqs[r].storeOps = 0)

\* C11: a request is only ever received after schema creation, rate-limiter
\* initialisation and cache initialisation have each completed exactly once;
\* no step runs twice; a failed startup has served no request and stays
\* aborted.
C11_StateStartup ==
    /\ \A s \in DOMAIN inits : inits[s] <= 1
    /\ (reqs # <<>> \/ phase = "serving") =>
           \A s \in DOMAIN inits : inits[s] = 1
    /\ phase = "aborted" =>
           (reqs = <<>> /\ \E s \in DOMAIN inits : inits[s] = 0)

C11_StartupStep ==
    /\ phase = "aborted" => (phase' = "aborted" /\ reqs' = <<>>)
    /\ phase # "starting" => inits' = inits

\* C11: the startup condition holds in every state and survives every step.
C11_StartupAllOrNothing == []C11_StateStartup /\ [][C11_StartupStep]_vars

\* after a complete startup a request has been answered by its handler
C11_Witness ==
    /\ phase = "serving"
    /\ \A s \in DOMAIN inits : inits[s] = 1
    /\ \E r \in DOMAIN reqs : reqs[r].handler /\ reqs[r].status = 200

\* the rate-limiter initialisation failed after the schema was created, and
\* the process does not serve
C11_WitnessAborted ==
    /\ phase = "aborted"
    /\ inits = [schema |-> 1, limiter |-> 0, cache |-> 0]

\* the Authorization header of request r is present and not empty
HasToken(r) ==
    IF reqs[r].auth = None THEN FALSE ELSE reqs[r].auth[1] # ""

\* C12 as amended: every request that carries a non-empty Authorization
\* header causes exactly one oracle call, a POST carrying exactly the header
\* value received; after a non-200 answer or a network error no further call
\* is made and the request is answered at once.
C12_OneCallNoRetry ==
    \A r \in DOMAIN reqs :
        HasToken(r) =>
            /\ OracleCalls(r) = 1
            /\ \A i \in DOMAIN oracleLog :
                   oracleLog[i].req = r =>
                       /\ oracleLog[i].method = "POST"
                       /\ oracleLog[i].authorization = reqs[r].auth
            /\ (reqs[r].oracle \notin {0, 200}) =>
                   (Done(r) /\ reqs[r].status \in {401, 503})

\* one request was refused by the oracle and another met a network error,
\* each with a single call in the oracle's log
C12_Witness ==
    \E r, q \in DOMAIN reqs :
        /\ HasToken(r) /\ reqs[r].oracle = 401 /\ reqs[r].status = 401
        /\ HasToken(q) /\ reqs[q].oracle = RequestException
        /\ reqs[q].status = 503
        /\ Len(oracleLog) = 2

\* C12 as stated: every request that carries an Authorization header, empty
\* or not, causes exactly one oracle call.
C12_OneCallForEveryHeader ==
    \A r \in DOMAIN reqs :
        reqs[r].auth # None =>
            /\ OracleCalls(r) = 1
            /\ \A i \in DOMAIN oracleLog :
                   oracleLog[i].req = r =>
                       /\ oracleLog[i].method = "POST"
                       /\ oracleLog[i].authorization = reqs[r].auth
            /\ (reqs[r].oracle \notin {0, 200}) =>
                   (Done(r) /\ reqs[r].status \in {401, 503})

\* a new request is taken up, or the route function of a request the oracle
\* has accepted runs
OthersProgress ==
    \/ \E ep \in Endpoints, auth \in AuthHeaders :
         \E arg \in Args(ep) :
            \/ verify_token_absent(ep, auth, arg)
            \/ verify_token_post(ep, auth, arg)
    \/ \E q \in DOMAIN reqs :
         root(q) \/ create_todo(q) \/ list_todos(q) \/ get_todo(q)

\* C13: while a request awaits the oracle's answer, the other requests are
\* not held up: a request still to come can be taken up and a request whose
\* read handler is due can run.
C13_WaitBlocksOnlyTheWaiter ==
    \A r \in DOMAIN reqs :
        (/\ reqs[r].pc = "waiting"
         /\ \/ Len(reqs) < MaxRequests
            \/ \E q \in DOMAIN reqs :
                 /\ reqs[q].pc = "handler"
                 /\ reqs[q].ep \in {"root", "list_todos", "get_todo"})
            => ENABLED OthersProgress

\* C14: every row once in the table stays there with the same id and fields;
\* the steps of root, list_todos and get_todo leave the table as it is, and a
\* step that changes it is a create_todo step that adds exactly one row.
C14_AppendOnlyStep ==
    /\ Len(store') >= Len(store)
    /\ \A i \in DOMAIN store : store'[i] = store[i]
    /\ \A r \in DOMAIN reqs :
           (\/ HandlerStep(r, "root")
            \/ HandlerStep(r, "list_todos")
            \/ HandlerStep(r, "get_todo")) => store' = store
    /\ store' # store =>
           /\ Len(store') = Len(store) + 1
           /\ \E r \in DOMAIN reqs : HandlerStep(r, "create_todo")

\* C14: the table only grows, one row per create_todo.
C14_AppendOnly == [][C14_AppendOnlyStep]_vars

\* two rows were created and the first one was then read back by get_todo
C14_Witness ==
    /\ Len(store) = 2
    /\ \E c, g \in DOMAIN reqs :
           /\ reqs[c].ep = "create_todo" /\ reqs[c].status = 200
           /\ reqs[c].body[1].id = 2
           /\ reqs[g].ep = "get_todo" /\ reqs[g].arg = 1
           /\ reqs[g].status = 200
           /\ reqs[g].body = <<[id |-> store[1].id, title |-> store[1].title]>>

\* C15: when list_todos runs, it answers 200 with one entry for every row
\* committed at that moment and no other entry; on an empty table the answer
\* is the empty sequence.
C15_ListStep ==
    \A r \in DOMAIN reqs :
        HandlerStep(r, "list_todos") =>
            /\ reqs'[r].status = 200
            /\ Len(reqs'[r].body) = Len(store)
            /\ \A i \in DOMAIN store :
                   Cardinality({j \in DOMAIN reqs'[r].body :
                                   /\ reqs'[r].body[j].id = store[i].id
                                   /\ reqs'[r].body[j].title = store[i].title}) = 1
            /\ \A j \in DOMAIN reqs'[r].body :
                   HasRow(store, reqs'[r].body[j].id)

\* C15: every list_todos step returns exactly the committed rows.
C15_ListReturnsCommitted == [][C15_ListStep]_vars

\* list_todos has answered the empty sequence on the empty table and, after
\* a row was committed, a list holding that row
C15_Witness ==
    \E r, q \in DOMAIN reqs :
        /\ reqs[r].ep = "list_todos" /\ reqs[r].status = 200
        /\ reqs[r].handler /\ reqs[r].body = <<>>
        /\ reqs[q].ep = "list_todos" /\ reqs[q].status = 200
        /\ reqs[q].body = <<[id |-> 1, title |-> "buy milk"]>>
        /\ Len(store) = 1

\* C16: a request whose Authorization header is present but empty is
\* answered like one without the header: 401 with detail "No token
\* provided", and the oracle is never called for it nor handed the empty
\* value.
C16_EmptyHeaderLikeAbsent ==
    /\ \A r \in DOMAIN reqs :
           reqs[r].auth = <<"">> =>
               /\ Done(r)
               /\ reqs[r].status = 401
               /\ reqs[r].detail = "No token provided"
               /\ OracleCalls(r) = 0
               /\ \A q \in DOMAIN reqs :
                      (reqs[q].auth = None /\ reqs[q].ep = reqs[r].ep) =>
                          /\ reqs[q].status = reqs[r].status
                          /\ reqs[q].detail = reqs[r].detail
                          /\ reqs[q].body = reqs[r].body
    /\ \A i \in DOMAIN oracleLog : oracleLog[i].authorization # <<"">>

\* an empty-header request and a header-less one to the same endpoint were
\* both rejected while the oracle was called for a third request
C16_Witness ==
    \E r, q, t \in DOMAIN reqs :
        /\ reqs[r].auth = <<"">> /\ reqs[r].status = 401
        /\ reqs[q].auth = None /\ reqs[q].ep = reqs[r].ep
        /\ OracleCalls(t) = 1

====
